---- MODULE Spec2Model ----
(***************************************************************************)
(* The translation caching layer of sushi-chef-engageny:                   *)
(*   cache.py        Db             persistent key-value cache with        *)
(*                                  hit/miss accounting                    *)
(*   translation.py  CachingClient  memoising front of a translator        *)
(*                   Client         the translator the chef uses           *)
(*   engageny_chef.py EngageNYChef._  length guard and retry loop          *)
(***************************************************************************)
EXTENDS Integers, Sequences, FiniteSets, TLC

VARIABLES
    cache,       \* the Db instance: [db, hits, misses]
    history,     \* every call made on the Db / CachingClient, with its outcome
    loop,        \* position of the test loops of test_cachedb / test_translation
    lang,              \* EngageNYChef._lang
    translation_client,\* EngageNYChef.translation_client
    pc,                \* where the chef is: new, ready, loop, sleep, returned, exited
    msg,               \* the argument of the running call of EngageNYChef._
    msg_to_translate,  \* its local of that name
    try_,              \* its local of that name
    trace,             \* the translate calls and sleeps of the running call, in order
    sent,              \* the texts the running call handed to translation_client.translate
    result,            \* what the call returned, and the final state it stands for
    files,             \* the shelf files on disk, by path
    handles,           \* the Db objects of the process: path, counters, open or closed
    expected,          \* by language and key, what the calls made so far have written
    acted,             \* the last call made on a Db object, and its result
    calls,             \* the calls of EngageNYChef._ that have returned, in order
    unit               \* one call of Client.translate on its own: arguments and outcome

dbVars == <<cache, history>>
chefVars == <<lang, translation_client, pc, msg, msg_to_translate, try_, trace, sent, result>>
storeVars == <<files, handles, expected, acted>>
runVars == <<calls, unit>>
vars == <<cache, history, loop, lang, translation_client, pc, msg, msg_to_translate,
          try_, trace, sent, result, files, handles, expected, acted, calls, unit>>

\* ------------------------------------------------------------------ bounds
MaxOps == 5          \* calls made on one Db instance
MaxClientOps == 4    \* calls made on one CachingClient and its cache
MaxOver == 2         \* how far past the request limit the messages of the model go
MaxMembers == 3      \* `members` of the hits-and-misses tests
MaxTimes == 4        \* `times` of the hits-and-misses tests
MaxStoreGets == 2    \* get calls counted by the open Db objects of SpecStore
MaxCalls == 2        \* calls of EngageNYChef._ in one run of SpecRun
MaxOpens == 2        \* Db objects constructed in one run of SpecStore

\* ------------------------------------------------------------- cache.py: Db
None == "None"                      \* Python's None
NoError == ""                       \* the call returned normally

Keys == {"hola", "adios"}           \* keys of test_cachedb.py
Data == {"mundo!", "world!"}        \* values of test_cachedb.py

\* str(i), for the keys of the test loops
str(i) ==
    <<"0", "1", "2", "3", "4", "5", "6", "7", "8", "9", "10", "11", "12", "13", "14", "15", "16", "17", "18", "19", "20", "21", "22", "23", "24", "25", "26", "27", "28", "29">>[i + 1]

\* hashlib.sha256(text.encode('utf8')).hexdigest(): the digests below are the
\* real SHA-256 digests of the keys the model uses.
sha256_hexdigest(text) ==
    CASE text = "hola" -> "b221d9dbb083a7f33428d7c2a3c3198ae925614d70210e28716ccaa7cd4ddb79"
      [] text = "adios" -> "d8542114d7d40f3c82fc0919efc644df30f4e827c2bd6b83b9dbec8358b2fbc4"
      [] text = "0" -> "5feceb66ffc86f38d952786c6d696c79c2dbc239dd4e91b46729d73a27fb57e9"
      [] text = "1" -> "6b86b273ff34fce19d6b804eff5a3f5747ada4eaa22f1d49c01e52ddb7875b4b"
      [] text = "2" -> "d4735e3a265e16eee03f59718b9b5d03019c07d8b6c51f90da3a666eec13ab35"
      [] text = "3" -> "4e07408562bedb8b60ce05c1decfe3ad16b72230967de01f640b7e4729b49fce"
      [] text = "4" -> "4b227777d4dd1fc61c6f884f48641d02b4d121d3fd328cb08b5531fcacdabf8a"
      [] text = "5" -> "ef2d127de37b942baad06145e54b0c619a1f22327b2ebbcfbec78f5564afe39d"
      [] text = "6" -> "e7f6c011776e8db7cd330b54174fd76f7d0216b612387a5ffcfb81e6f0919683"
      [] text = "7" -> "7902699be42c8a8e46fbbb4501726517e86b22c56a189f7625a6da49081b2451"
      [] text = "8" -> "2c624232cdd221771294dfbb310aca000a0df6ac8b66b696d90ef06fdefb64a3"
      [] text = "9" -> "19581e27de7ced00ff1ce50b2047e7a567c76b1cbaebabe5ef03f7c3017bb5b7"
      [] text = "10" -> "4a44dc15364204a80fe80e9039455cc1608281820fe2b24f1e5233ade6af1dd5"
      [] text = "11" -> "4fc82b26aecb47d2868c4efbe3581732a3e7cbcc6c2efb32062c08170a05eeb8"
      [] text = "12" -> "6b51d431df5d7f141cbececcf79edf3dd861c3b4069f0b11661a3eefacbba918"
      [] text = "13" -> "3fdba35f04dc8c462986c992bcf875546257113072a909c162f7e470e581e278"
      [] text = "14" -> "8527a891e224136950ff32ca212b45bc93f69fbb801c3b1ebedac52775f99e61"
      [] text = "15" -> "e629fa6598d732768f7c726b4b621285f9c3b85303900aa912017db7617d8bdb"
      [] text = "16" -> "b17ef6d19c7a5b1ee83b907c595526dcb1eb06db8227d650d5dda0a9f4ce8cd9"
      [] text = "17" -> "4523540f1504cd17100c4835e85b7eefd49911580f8efff0599a8f283be6b9e3"
      [] text = "18" -> "4ec9599fc203d176a301536c2e091a19bc852759b255bd6818810a42c5fed14a"
      [] text = "19" -> "9400f1b21cb527d7fa3d3eabba93557a18ebe7a2ca4e471cfe5e4c5b4ca7f767"
      [] text = "20" -> "f5ca38f748a1d6eaf726b8a42fb575c3c71f1864a8143301782de13da2d9202b"
      [] text = "21" -> "6f4b6612125fb3a0daecd2799dfd6c9c299424fd920f9b308110a2c1fbd8f443"
      [] text = "22" -> "785f3ec7eb32f30b90cd0fcf3657d388b5ff4297f2f9716ff66e9b69c05ddd09"
      [] text = "23" -> "535fa30d7e25dd8a49f1536779734ec8286108d115da5045d77f3b4185d8f790"
      [] text = "24" -> "c2356069e9d1e79ca924378153cfbbfb4d4416b1f99d41a2940bfdb66c5319db"
      [] text = "25" -> "b7a56873cd771f2c446d369b649430b65a756ba278ff97ec81bb6f55b2e73569"
      [] text = "26" -> "5f9c4ab08cac7457e9111a30e4664920607ea2c115a1433d7be98e97e64244ca"
      [] text = "27" -> "670671cd97404156226e507973f2ab8330d3022ca96e0c93bdbdb320c41adcaf"
      [] text = "28" -> "59e19706d51d39f66711c2653cd7eb1291c94d9b55eb14bda74ce4dc636d015a"
      [] text = "29" -> "35135aaa6cc23891b40cb3f378c53a17a1127210ce60e125ccf03efcfdaec458"

\* Db._genkey
_genkey_one_slot(text) == sha256_hexdigest("hola")
_genkey(text) == sha256_hexdigest(text)

\* the shelf before anything is stored in it
EmptyShelf == [g \in {} |-> None]

\* shelf[g] = data
SetItem_replace_all(shelf, g, data) == [x \in {g} |-> data]
SetItem(shelf, g, data) ==
    [x \in (DOMAIN shelf) \cup {g} |-> IF x = g THEN data ELSE shelf[x]]

\* del shelf[g], for g in shelf
DelItem(shelf, g) ==
    [x \in (DOMAIN shelf) \ {g} |-> shelf[x]]

\* Db.__init__: a store that was never written, both counters 0
Db__init__ == [db |-> EmptyShelf, hits |-> 0, misses |-> 0]

\* Db.add: the instance after the call (the call returns nothing)
add_keep_first(self, key, data) ==
    IF _genkey(key) \in DOMAIN self.db THEN self
    ELSE [self EXCEPT !.db = SetItem(self.db, _genkey(key), data)]
add(self, key, data) ==
    [self EXCEPT !.db = SetItem(self.db, _genkey(key), data)]

\* Db.remove: del raises KeyError for a key that is not in the shelf
remove_missing_ok(self, key) ==
    IF _genkey(key) \in DOMAIN self.db
    THEN [self |-> [self EXCEPT !.db = DelItem(self.db, _genkey(key))],
          raised |-> NoError]
    ELSE [self |-> self, raised |-> NoError]
remove(self, key) ==
    IF _genkey(key) \in DOMAIN self.db
    THEN [self |-> [self EXCEPT !.db = DelItem(self.db, _genkey(key))],
          raised |-> NoError]
    ELSE [self |-> self, raised |-> "KeyError"]

\* Db.get: the instance after the call and the returned pair (found, value)
get_count_all_as_hits(self, key) ==
    LET genkey == _genkey(key) IN
    IF genkey \in DOMAIN self.db
    THEN [self |-> [self EXCEPT !.hits = @ + 1],
          found |-> TRUE, value |-> self.db[genkey], raised |-> NoError]
    ELSE [self |-> [self EXCEPT !.hits = @ + 1],
          found |-> FALSE, value |-> None, raised |-> NoError]
get_hit_uncounted(self, key) ==
    LET genkey == _genkey(key) IN
    IF genkey \in DOMAIN self.db
    THEN [self |-> self,
          found |-> TRUE, value |-> self.db[genkey], raised |-> NoError]
    ELSE [self |-> [self EXCEPT !.misses = @ + 1],
          found |-> FALSE, value |-> None, raised |-> NoError]
get(self, key) ==
    LET genkey == _genkey(key) IN
    IF genkey \in DOMAIN self.db
    THEN [self |-> [self EXCEPT !.hits = @ + 1],
          found |-> TRUE, value |-> self.db[genkey], raised |-> NoError]
    ELSE [self |-> [self EXCEPT !.misses = @ + 1],
          found |-> FALSE, value |-> None, raised |-> NoError]

\* Db.stats
stats(self) == [hits |-> self.hits, misses |-> self.misses]

\* One entry of the call history.
Call(op, key, data, found, value, raised, st) ==
    [op |-> op, key |-> key, data |-> data, found |-> found, value |-> value,
     raised |-> raised, stats |-> st, upstream |-> "none", stored |-> FALSE,
     answer |-> [raised |-> NoError, value |-> None]]

NoStats == [hits |-> -1, misses |-> -1]
NoLoop == [test |-> "none", members |-> 0, times |-> 0, i |-> 0, done |-> TRUE]

\* a Db object: the path it opened, its counters, whether close() was called;
\* gen counts the objects constructed in the slot, wrote tells whether add was
\* called on this one
NoHandle == [state |-> "none", lang |-> None, path |-> <<>>, hits |-> 0, misses |-> 0,
             gen |-> 0, wrote |-> FALSE]
Handles == {1, 2}
Langs == {"es", "en"}               \* the languages of the two test classes
BaseDir == "teststorage"            \* mkdtemp(...)
StoreData == {"mundo!"}
NoEntry == [present |-> FALSE, value |-> None]
NoCall == [h |-> 0, op |-> "none", found |-> FALSE, raised |-> NoError]

\* no Db object constructed, nothing on disk
NoStore ==
    /\ files = [p \in {} |-> EmptyShelf]
    /\ handles = [h \in Handles |-> NoHandle]
    /\ expected = [l \in Langs |-> [k \in Keys |-> NoEntry]]
    /\ acted = NoCall

\* the chef has no translation_client attribute yet
NoClient == [class |-> None, source_language |-> None, target_language |-> None,
             format |-> None, model |-> None]

\* no call of _ has returned, Client.translate has not been called on its own
NoUnit == [client |-> NoClient, values |-> <<>>, done |-> FALSE, raised |-> NoError,
           upstream_calls |-> <<>>, shape |-> "none", records |-> <<>>,
           answer |-> [raised |-> NoError, shape |-> "none", records |-> <<>>]]
NoRun ==
    /\ calls = <<>>
    /\ unit = NoUnit

\* EngageNYChef.__init__: no language, no translation client yet
NoChef ==
    /\ lang = None
    /\ translation_client = NoClient
    /\ pc = "new"
    /\ msg = <<>>
    /\ msg_to_translate = <<>>
    /\ try_ = 0
    /\ trace = <<>>
    /\ sent = {}
    /\ result = [state |-> "none", value |-> <<>>]

\* ---------------------------------------------- Spec: calls on one open Db
Init ==
    /\ cache = Db__init__
    /\ history = <<>>
    /\ loop = NoLoop
    /\ NoChef
    /\ NoStore
    /\ NoRun

Add(key, data) ==
    /\ Len(history) < MaxOps
    /\ cache' = add(cache, key, data)
    /\ history' = Append(history, Call("add", key, data, FALSE, None, NoError, NoStats))
    /\ UNCHANGED <<loop, chefVars, storeVars, runVars>>

Remove(key) ==
    /\ Len(history) < MaxOps
    /\ cache' = remove(cache, key).self
    /\ history' = Append(history,
           Call("remove", key, None, FALSE, None, remove(cache, key).raised, NoStats))
    /\ UNCHANGED <<loop, chefVars, storeVars, runVars>>

Get(key) ==
    /\ Len(history) < MaxOps
    /\ cache' = get(cache, key).self
    /\ history' = Append(history,
           Call("get", key, None, get(cache, key).found, get(cache, key).value,
                get(cache, key).raised, NoStats))
    /\ UNCHANGED <<loop, chefVars, storeVars, runVars>>

Stats ==
    /\ Len(history) < MaxOps
    /\ history' = Append(history, Call("stats", None, None, FALSE, None, NoError, stats(cache)))
    /\ UNCHANGED <<cache, loop, chefVars, storeVars, runVars>>

Next ==
    \/ \E key \in Keys, data \in Data : Add(key, data)
    \/ \E key \in Keys : Remove(key)
    \/ \E key \in Keys : Get(key)
    \/ Stats

Spec == Init /\ [][Next]_vars

\* ------------------------------------------- what the call history implies
Max(S) == CHOOSE x \in S : \A y \in S : y <= x

\* the calls before call i that wrote or deleted the entry of key k
WritesBefore(h, k, i) ==
    {j \in 1..(i - 1) :
        /\ h[j].key = k
        /\ \/ h[j].op = "add"
           \/ h[j].op = "remove" /\ h[j].raised = NoError
           \/ h[j].op = "translate" /\ h[j].stored}

\* TRUE when, by the calls made before call i, key k has an entry
Stored(h, k, i) ==
    /\ WritesBefore(h, k, i) # {}
    /\ h[Max(WritesBefore(h, k, i))].op # "remove"

\* the value that entry holds
StoredValue(h, k, i) == h[Max(WritesBefore(h, k, i))].data

GetCalls(h) == {i \in 1..Len(h) : h[i].op = "get" \/ h[i].op = "translate"}

\* C1: a get(k) made after add(k, v) returns (True, v) as long as no later
\* remove(k) or add(k, v2) came in between; after a later add(k, v2) it returns
\* (True, v2); after remove(k) it returns (False, None) until k is added again.
C1_CacheCorrectness ==
    \A i \in 1..Len(history) :
        history[i].op = "get" =>
            IF Stored(history, history[i].key, i)
            THEN /\ history[i].raised = NoError
                 /\ history[i].found = TRUE
                 /\ history[i].value = StoredValue(history, history[i].key, i)
            ELSE /\ history[i].raised = NoError
                 /\ history[i].found = FALSE
                 /\ history[i].value = None

\* add(k, v); add(k, v2); get(k) = (True, v2); remove(k); get(k) = (False, None)
C1_Witness ==
    /\ Len(history) = 5
    /\ history[1].op = "add" /\ history[1].key = "hola" /\ history[1].data = "mundo!"
    /\ history[2].op = "add" /\ history[2].key = "hola" /\ history[2].data = "world!"
    /\ history[3].op = "get" /\ history[3].key = "hola" /\ history[3].value = "world!"
    /\ history[4].op = "remove" /\ history[4].key = "hola" /\ history[4].raised = NoError
    /\ history[5].op = "get" /\ history[5].key = "hola" /\ history[5].found = FALSE


Last(h) == h[Len(h)]

\* the step is one call of Db.get
IsGetStep == Len(history') = Len(history) + 1 /\ Last(history').op = "get"

\* C2: get of a key that has no entry raises nothing, returns (False, None),
\* adds exactly 1 to misses and leaves hits alone; get of a key that has an
\* entry returns (True, value), adds exactly 1 to hits and leaves misses alone.
C2_GetCounts ==
    [][IsGetStep =>
        LET c == Last(history') IN
        IF Stored(history, c.key, Len(history) + 1)
        THEN /\ c.raised = NoError /\ c.found = TRUE
             /\ c.value = StoredValue(history, c.key, Len(history) + 1)
             /\ cache'.hits = cache.hits + 1 /\ cache'.misses = cache.misses
        ELSE /\ c.raised = NoError /\ c.found = FALSE /\ c.value = None
             /\ cache'.misses = cache.misses + 1 /\ cache'.hits = cache.hits]_vars

\* a miss, then an add, then a hit of the same key
C2_Witness ==
    /\ Len(history) >= 3
    /\ history[1].op = "get" /\ history[1].key = "hola" /\ history[1].found = FALSE
    /\ history[2].op = "add" /\ history[2].key = "hola"
    /\ history[3].op = "get" /\ history[3].key = "hola" /\ history[3].found = TRUE
    /\ cache.hits = 1 /\ cache.misses = 1

\* C3: hits + misses is the number of get calls made on the instance since it
\* was constructed, and no step lowers either counter.
C3_CountersSumToGets ==
    /\ [](cache.hits + cache.misses =
            Cardinality({i \in 1..Len(history) : history[i].op = "get"}))
    /\ [][cache'.hits >= cache.hits /\ cache'.misses >= cache.misses]_vars

\* gets of both kinds have been counted, with other calls in between
C3_Witness ==
    /\ cache.hits = 2 /\ cache.misses = 1
    /\ Cardinality({i \in 1..Len(history) : history[i].op = "get"}) = 3
    /\ \E i \in 1..Len(history) : history[i].op = "remove"


\* ------------------------------------------- translation.py: CachingClient
\* What a translator's translate does on one call: it returns a value or raises.
Returns(value) == [raised |-> NoError, value |-> value]
Raises(error) == [raised |-> error, value |-> None]

\* test_translation.py, MockTranslator.translate
MockTranslator_translate(values) == Returns(values)

CachingClient_translate_no_add(self, values, outcome) ==
    LET looked == get(self, values) IN
    IF looked.found
    THEN [self |-> looked.self, raised |-> NoError, value |-> looked.value,
          upstream |-> "none", stored |-> FALSE]
    ELSE IF outcome.raised # NoError
    THEN [self |-> looked.self, raised |-> outcome.raised, value |-> None,
          upstream |-> "raised", stored |-> FALSE]
    ELSE [self |-> looked.self, raised |-> NoError,
          value |-> outcome.value, upstream |-> "returned", stored |-> FALSE]
CachingClient_translate_add_on_error(self, values, outcome) ==
    LET looked == get(self, values) IN
    IF looked.found
    THEN [self |-> looked.self, raised |-> NoError, value |-> looked.value,
          upstream |-> "none", stored |-> FALSE]
    ELSE [self |-> add(looked.self, values, outcome.value), raised |-> outcome.raised,
          value |-> outcome.value, upstream |-> IF outcome.raised # NoError
                                                THEN "raised" ELSE "returned",
          stored |-> TRUE]

\* CachingClient.translate(values), the wrapped translator answering `outcome`
\* when it is called: the cache after the call, what the call returned or
\* raised, whether the translator was called, whether an entry was stored.
CachingClient_translate(self, values, outcome) ==
    LET looked == get(self, values) IN
    IF looked.found
    THEN [self |-> looked.self, raised |-> NoError, value |-> looked.value,
          upstream |-> "none", stored |-> FALSE]
    ELSE IF outcome.raised # NoError
    THEN [self |-> looked.self, raised |-> outcome.raised, value |-> None,
          upstream |-> "raised", stored |-> FALSE]
    ELSE [self |-> add(looked.self, values, outcome.value), raised |-> NoError,
          value |-> outcome.value, upstream |-> "returned", stored |-> TRUE]

\* CachingClient.stats(): the class defines __init__, translate and close only,
\* so the attribute lookup fails.
CachingClient_stats(self) == [raised |-> "AttributeError", stats |-> NoStats]

TranslateCall(values, outcome, r) ==
    [op |-> "translate", key |-> values, data |-> r.value, found |-> r.upstream = "none",
     value |-> r.value, raised |-> r.raised, stats |-> NoStats,
     upstream |-> r.upstream, stored |-> r.stored, answer |-> outcome]

\* ------------------- SpecTests: the loops of the two hits-and-misses tests
InitTests ==
    /\ cache = Db__init__
    /\ history = <<>>
    /\ loop \in [test : {"cachedb", "translation"}, members : 1..MaxMembers,
                 times : 1..MaxTimes, i : {0}, done : {FALSE}]
    /\ NoChef
    /\ NoStore
    /\ NoRun

\* test_cachedb.py, test_hits_and_misses: one pass of the for loop
CacheDbLoop ==
    /\ loop.test = "cachedb" /\ ~loop.done
    /\ loop.i < loop.members * loop.times
    /\ LET k == str(loop.i % loop.members)
           r == get(cache, k)
           key == str(loop.i)
       IN IF r.found
          THEN /\ cache' = r.self
               /\ history' = Append(history,
                      Call("get", k, None, r.found, r.value, r.raised, NoStats))
          ELSE /\ cache' = add(r.self, key, <<"value_", key>>)
               /\ history' = history \o
                      <<Call("get", k, None, r.found, r.value, r.raised, NoStats),
                        Call("add", key, <<"value_", key>>, FALSE, None, NoError, NoStats)>>
    /\ loop' = [loop EXCEPT !.i = @ + 1]
    /\ UNCHANGED <<chefVars, storeVars, runVars>>

\* ... and the stats() call after the loop
CacheDbStats ==
    /\ loop.test = "cachedb" /\ ~loop.done
    /\ loop.i = loop.members * loop.times
    /\ history' = Append(history, Call("stats", None, None, FALSE, None, NoError, stats(cache)))
    /\ loop' = [loop EXCEPT !.done = TRUE]
    /\ UNCHANGED <<cache, chefVars, storeVars, runVars>>

\* test_translation.py, test_hits_and_misses / test_misses: one pass of the loop
TranslationLoop ==
    /\ loop.test = "translation" /\ ~loop.done
    /\ loop.i < loop.members * loop.times
    /\ LET k == str(loop.i % loop.members)
           r == CachingClient_translate(cache, k, MockTranslator_translate(k))
       IN /\ cache' = r.self
          /\ history' = Append(history, TranslateCall(k, MockTranslator_translate(k), r))
    /\ loop' = [loop EXCEPT !.i = @ + 1]
    /\ UNCHANGED <<chefVars, storeVars, runVars>>

\* ... and the stats() call after the loop
TranslationStats ==
    /\ loop.test = "translation" /\ ~loop.done
    /\ loop.i = loop.members * loop.times
    /\ history' = Append(history,
           [Call("CachingClient.stats", None, None, FALSE, None,
                 CachingClient_stats(cache).raised, CachingClient_stats(cache).stats)
            EXCEPT !.upstream = "none"])
    /\ loop' = [loop EXCEPT !.done = TRUE]
    /\ UNCHANGED <<cache, chefVars, storeVars, runVars>>

NextTests == CacheDbLoop \/ CacheDbStats \/ TranslationLoop \/ TranslationStats

SpecTests == InitTests /\ [][NextTests]_vars

\* C4: on a fresh Db, get of m distinct new keys, t times each in round-robin
\* order, every missed key added right after its miss, ends with stats()
\* reporting misses = m and hits = m * (t - 1).
C4_HitMissAccounting ==
    (loop.test = "cachedb" /\ loop.done) =>
        /\ Last(history).op = "stats"
        /\ Last(history).stats.misses = loop.members
        /\ Last(history).stats.hits = loop.members * (loop.times - 1)

C4_Witness ==
    /\ loop.test = "cachedb" /\ loop.done
    /\ loop.members = 3 /\ loop.times = 4
    /\ Last(history).stats = [hits |-> 9, misses |-> 3]

\* C5: CachingClient has a stats() that hands back the cache's counters: after
\* translate of m distinct texts, t times each in round-robin order, on a fresh
\* cache with a translator that never fails, it returns misses = m and
\* hits = m * (t - 1) (hits = 0 when t = 1).
C5_ClientStats ==
    (loop.test = "translation" /\ loop.done) =>
        /\ Last(history).op = "CachingClient.stats"
        /\ Last(history).raised = NoError
        /\ Last(history).stats.misses = loop.members
        /\ Last(history).stats.hits = loop.members * (loop.times - 1)


\* ------------------------ SpecClient: calls on one CachingClient and its cache
Texts == Keys
Errors == {"Forbidden", "ServiceUnavailable"}
Answers == {Returns(v) : v \in Data} \cup {Raises(e) : e \in Errors}

InitClient ==
    /\ cache = Db__init__
    /\ history = <<>>
    /\ loop = NoLoop
    /\ NoChef
    /\ NoStore
    /\ NoRun

\* one call of CachingClient.translate; `outcome` is what the translator does
\* if the call reaches it
Translate(values, outcome) ==
    /\ Len(history) < MaxClientOps
    /\ LET r == CachingClient_translate(cache, values, outcome)
       IN /\ cache' = r.self
          /\ history' = Append(history, TranslateCall(values, outcome, r))
    /\ UNCHANGED <<loop, chefVars, storeVars, runVars>>

\* one call of get on the client's cache
CacheGet(key) ==
    /\ Len(history) < MaxClientOps
    /\ Get(key)

NextClient ==
    \/ \E values \in Texts, outcome \in Answers : Translate(values, outcome)
    \/ \E key \in Texts : CacheGet(key)

SpecClient == InitClient /\ [][NextClient]_vars

TranslateCalls(text) ==
    {i \in 1..Len(history) : history[i].op = "translate" /\ history[i].key = text}

\* C6: over any sequence of translate calls on one store (nothing removed), a
\* text has at most one upstream call that succeeds; a call for a text that is
\* cached calls nothing upstream and returns the cached value, so once a call
\* for a text has returned, every later call for it returns the same value and
\* the upstream has been called successfully for it exactly once.
C6_AtMostOneUpstreamCall ==
    \A text \in Texts :
        /\ Cardinality({i \in TranslateCalls(text) : history[i].upstream = "returned"}) <= 1
        /\ \A i \in TranslateCalls(text) :
              Stored(history, text, i) =>
                  /\ history[i].upstream = "none"
                  /\ history[i].raised = NoError
                  /\ history[i].value = StoredValue(history, text, i)
        /\ \A i, j \in TranslateCalls(text) :
              (i < j /\ history[i].raised = NoError) =>
                  /\ history[j].raised = NoError
                  /\ history[j].value = history[i].value
                  /\ history[j].upstream = "none"
                  /\ Cardinality({n \in TranslateCalls(text) :
                                     n <= j /\ history[n].upstream = "returned"}) = 1

\* translate("hola") twice, the translator ready to answer differently the
\* second time: one upstream call, the same value twice
C6_Witness ==
    /\ Len(history) >= 2
    /\ history[1].op = "translate" /\ history[1].key = "hola"
    /\ history[1].upstream = "returned" /\ history[1].value = "mundo!"
    /\ history[2].op = "translate" /\ history[2].key = "hola"
    /\ history[2].answer = Returns("world!")
    /\ history[2].upstream = "none" /\ history[2].value = "mundo!"

IsTranslateStep == Len(history') = Len(history) + 1 /\ Last(history').op = "translate"

\* C7: when the translator raises inside translate(x) (a miss), the caller gets
\* that very error, nothing is stored for x (a get(x) that follows finds
\* nothing) and no entry of the store changes.
C7_NoCachingOfFailures ==
    /\ [][(IsTranslateStep /\ Last(history').upstream = "raised") =>
            /\ Last(history').raised = Last(history').answer.raised
            /\ Last(history').raised # NoError
            /\ cache'.db = cache.db
            /\ _genkey(Last(history').key) \notin DOMAIN cache'.db]_vars
    /\ [](\A i \in 1..(Len(history) - 1) :
            (/\ history[i].op = "translate" /\ history[i].upstream = "raised"
             /\ history[i + 1].op = "get" /\ history[i + 1].key = history[i].key)
            => history[i + 1].found = FALSE)

\* "adios" is cached, translate("hola") fails, get("hola") finds nothing and
\* the entry of "adios" is still there
C7_Witness ==
    /\ Len(history) = 4
    /\ history[1].op = "translate" /\ history[1].key = "adios" /\ history[1].stored
    /\ history[2].op = "translate" /\ history[2].key = "hola"
    /\ history[2].raised = "ServiceUnavailable"
    /\ history[3].op = "get" /\ history[3].key = "hola" /\ history[3].found = FALSE
    /\ history[4].op = "get" /\ history[4].key = "adios" /\ history[4].found = TRUE


\* ------------------------------------------------ translation.py: Client
MAX_LENGTH == 5000

\* Client.__init__(target_language=...), the other arguments at their defaults
Client__init__(target_language) ==
    [class |-> "translation.Client", source_language |-> "en",
     target_language |-> target_language, format |-> "text", model |-> "nmt"]

Min(a, b) == IF a < b THEN a ELSE b

\* Client.chunks: values[i:i+MAX_LENGTH] for i in range(0, len(values), MAX_LENGTH)
chunks_drop_tail(values) ==
    [n \in 1..(Len(values) \div MAX_LENGTH) |->
        SubSeq(values, (n - 1) * MAX_LENGTH + 1, n * MAX_LENGTH)]
chunks(values) ==
    [n \in 1..((Len(values) + MAX_LENGTH - 1) \div MAX_LENGTH) |->
        SubSeq(values, (n - 1) * MAX_LENGTH + 1, Min(n * MAX_LENGTH, Len(values)))]

\* a response: a single record (isList = FALSE, one record) or a list of records
Record(text, model, source) ==
    [translatedText |-> text, model |-> model, detectedSourceLanguage |-> source]
Single(rec) == [isList |-> FALSE, records |-> <<rec>>]
List(recs) == [isList |-> TRUE, records |-> recs]

\* Client.translate(values) for a string: `answer` is what the Google client
\* does if it is called. upstream tells whether it was called, upstream_calls
\* lists the text handed over by each call of it.
Client_translate(self, values, answer) ==
    LET strings_to_translate == chunks(values) IN
    IF self.source_language = "en" /\ self.source_language = self.target_language
    THEN [raised |-> NoError, upstream |-> FALSE, upstream_calls |-> <<>>,
          value |-> List([n \in 1..Len(strings_to_translate) |->
                             Record(strings_to_translate[n], "nop", self.source_language)])]
    ELSE [raised |-> answer.raised, upstream |-> TRUE, upstream_calls |-> <<values>>,
          value |-> answer.value]

\* ------------------------------------------- engageny_chef.py: EngageNYChef
SUPPORTED_LANGUAGES == {"ar", "bn", "en", "es", "ht", "zh-CN", "zh-TW"}

sleep_period_secs == 100
max_tries == 4
msg_limit == 5000        \* `if msg_length >= 5000`
msg_keep == 4996         \* `msg[:4996]`
Ellipsis == <<" ", ".", ".", ".">>      \* " ..."

\* the part of _ before the loop: msg_to_translate
length_guard_none(m) == m
length_guard(m) ==
    IF Len(m) >= msg_limit
    THEN SubSeq(m, 1, Min(msg_keep, Len(m))) \o Ellipsis
    ELSE m

\* the loop condition of _
loop_runs_once_more(t) == t <= max_tries
loop_runs(t) == t < max_tries

\* the body of the loop of _ once translation_client.translate has answered r:
\* the call returns (next = "returned") or the bare except counts the try and
\* sleeps (next = "sleep").
attempt_retry_forbidden(m, t, r) ==
    IF r.raised = NoError /\ Len(r.value.records) > 0
    THEN [next |-> "returned", try_ |-> t, outcome |-> "returned",
          result |-> [state |-> "Success", value |-> r.value.records[1].translatedText]]
    ELSE [next |-> "sleep", try_ |-> t + 1,
          outcome |-> IF r.raised = NoError THEN "IndexError" ELSE r.raised,
          result |-> [state |-> "none", value |-> <<>>]]
attempt_last_record(m, t, r) ==
    IF r.raised = NoError /\ Len(r.value.records) > 0
    THEN [next |-> "returned", try_ |-> t, outcome |-> "returned",
          result |-> [state |-> "Success",
                      value |-> r.value.records[Len(r.value.records)].translatedText]]
    ELSE IF r.raised = "Forbidden"
    THEN [next |-> "returned", try_ |-> t, outcome |-> "Forbidden",
          result |-> [state |-> "PermanentFailure", value |-> m]]
    ELSE [next |-> "sleep", try_ |-> t + 1,
          outcome |-> IF r.raised = NoError THEN "IndexError" ELSE r.raised,
          result |-> [state |-> "none", value |-> <<>>]]
attempt_list_joined(m, t, r) ==
    IF r.raised = NoError /\ Len(r.value.records) > 0
    THEN [next |-> "returned", try_ |-> t, outcome |-> "returned",
          result |-> [state |-> "Success",
                      value |-> r.value.records[1].translatedText \o
                                (IF Len(r.value.records) > 1
                                 THEN r.value.records[2].translatedText ELSE <<>>)]]
    ELSE IF r.raised = "Forbidden"
    THEN [next |-> "returned", try_ |-> t, outcome |-> "Forbidden",
          result |-> [state |-> "PermanentFailure", value |-> m]]
    ELSE [next |-> "sleep", try_ |-> t + 1,
          outcome |-> IF r.raised = NoError THEN "IndexError" ELSE r.raised,
          result |-> [state |-> "none", value |-> <<>>]]
attempt_forbidden_returns_nothing(m, t, r) ==
    IF r.raised = NoError /\ Len(r.value.records) > 0
    THEN [next |-> "returned", try_ |-> t, outcome |-> "returned",
          result |-> [state |-> "Success", value |-> r.value.records[1].translatedText]]
    ELSE IF r.raised = "Forbidden"
    THEN [next |-> "returned", try_ |-> t, outcome |-> "Forbidden",
          result |-> [state |-> "PermanentFailure", value |-> <<>>]]
    ELSE [next |-> "sleep", try_ |-> t + 1,
          outcome |-> IF r.raised = NoError THEN "IndexError" ELSE r.raised,
          result |-> [state |-> "none", value |-> <<>>]]
attempt(m, t, r) ==
    IF r.raised = NoError
    THEN IF r.value.isList /\ Len(r.value.records) = 0
         THEN \* response[0] raises IndexError inside the try
              [next |-> "sleep", try_ |-> t + 1, outcome |-> "IndexError",
               result |-> [state |-> "none", value |-> <<>>]]
         ELSE [next |-> "returned", try_ |-> t, outcome |-> "returned",
               result |-> [state |-> "Success",
                           value |-> r.value.records[1].translatedText]]
    ELSE IF r.raised = "Forbidden"
    THEN [next |-> "returned", try_ |-> t, outcome |-> "Forbidden",
          result |-> [state |-> "PermanentFailure", value |-> m]]
    ELSE [next |-> "sleep", try_ |-> t + 1, outcome |-> r.raised,
          result |-> [state |-> "none", value |-> <<>>]]

\* ------------------------------------ SpecRetry: one chef, one call of _
Alphabet == <<"a", "b", "c">>
Msg(n, shift) == [i \in 1..n |-> Alphabet[((i + shift) % 3) + 1]]
MsgLengths == {0, 1, msg_keep, msg_limit - 1, msg_limit} \cup
              {msg_limit + d : d \in 1..MaxOver}
Messages == {Msg(n, shift) : n \in MsgLengths, shift \in {0, 1}}

LangOptions == {None, "fr", "en", "es", "zh-CN"}      \* options['lang']

Hola == <<"h", "o", "l", "a">>
Mundo == <<"m", "u", "n", "d", "o">>
\* what the Google client may do on one call
UpstreamAnswers ==
    { Returns(Single(Record(Hola, "nmt", "en"))),
      Returns(List(<<Record(Mundo, "nmt", "en"), Record(Hola, "nmt", "en")>>)),
      Raises("Forbidden"),
      Raises("ServiceUnavailable") }

InitRetry ==
    /\ cache = Db__init__
    /\ history = <<>>
    /\ loop = NoLoop
    /\ NoChef
    /\ NoStore
    /\ NoRun

\* what translation_client.translate did, as the events of trace record it:
\* it raised, or returned a record, a list of records or an empty list
Shape(r) ==
    IF r.raised # NoError THEN "raised"
    ELSE IF ~r.value.isList THEN "record"
    ELSE IF Len(r.value.records) = 0 THEN "empty list" ELSE "list"

\* the translatedText of each record it returned
Texts_of(r) ==
    IF r.raised # NoError THEN <<>>
    ELSE [n \in 1..Len(r.value.records) |-> r.value.records[n].translatedText]

\* EngageNYChef._setup_language(options)
_setup_language(option) ==
    /\ pc = "new"
    /\ IF option = None \/ option \notin SUPPORTED_LANGUAGES
       THEN /\ pc' = "exited"
            /\ UNCHANGED <<lang, translation_client>>
       ELSE /\ lang' = option
            /\ translation_client' = Client__init__(option)
            /\ pc' = "ready"
    /\ UNCHANGED <<msg, msg_to_translate, try_, trace, sent, result, dbVars, loop, storeVars, runVars>>

\* _(msg) up to the loop
Enter_(m) ==
    /\ pc = "ready"
    /\ msg' = m
    /\ msg_to_translate' = length_guard(m)
    /\ try_' = 1
    /\ pc' = "loop"
    /\ UNCHANGED <<lang, translation_client, trace, sent, result, dbVars, loop, storeVars, runVars>>

\* one pass of the loop up to the return or the sleep
Attempt_(answer) ==
    /\ pc = "loop" /\ loop_runs(try_)
    /\ LET r == Client_translate(translation_client, msg_to_translate, answer)
           a == attempt(msg, try_, r)
       IN /\ sent' = sent \cup {msg_to_translate}
          /\ trace' = Append(trace, [ev |-> "translate", try_ |-> try_,
                                     upstream |-> r.upstream, outcome |-> a.outcome,
                                     secs |-> 0, response |-> Shape(r),
                                     texts |-> Texts_of(r)])
          /\ try_' = a.try_
          /\ pc' = a.next
          /\ result' = a.result
    /\ UNCHANGED <<lang, translation_client, msg, msg_to_translate, dbVars, loop, storeVars, runVars>>

\* sleep(sleep_period_secs) at the end of the bare except
Sleep_ ==
    /\ pc = "sleep"
    /\ trace' = Append(trace, [ev |-> "sleep", try_ |-> try_, upstream |-> FALSE,
                               outcome |-> "slept", secs |-> sleep_period_secs,
                               response |-> "none", texts |-> <<>>])
    /\ pc' = "loop"
    /\ UNCHANGED <<lang, translation_client, msg, msg_to_translate, try_, sent, result,
                   dbVars, loop, storeVars, runVars>>

\* the loop condition fails: 'All retries exahusted', return msg
Exhausted_ ==
    /\ pc = "loop" /\ ~loop_runs(try_)
    /\ result' = [state |-> "ExhaustedRetries", value |-> msg]
    /\ pc' = "returned"
    /\ UNCHANGED <<lang, translation_client, msg, msg_to_translate, try_, trace, sent,
                   dbVars, loop, storeVars, runVars>>

NextRetry ==
    \/ \E option \in LangOptions : _setup_language(option)
    \/ \E m \in Messages : Enter_(m)
    \/ \E answer \in UpstreamAnswers : Attempt_(answer)
    \/ Sleep_
    \/ Exhausted_

SpecRetry == InitRetry /\ [][NextRetry]_vars


TranslateEvents == {i \in 1..Len(trace) : trace[i].ev = "translate"}
SleepEvents == {i \in 1..Len(trace) : trace[i].ev = "sleep"}

\* every translate call of the running call reached the upstream, which raised
\* an error other than Forbidden
UpstreamAlwaysTransient ==
    \A i \in TranslateEvents :
        /\ trace[i].upstream
        /\ trace[i].outcome \notin {"returned", "Forbidden", "IndexError"}

\* C8: when the upstream raises a transient error on every call, one call of _
\* gives up after exactly max_tries (4) upstream attempts and exactly
\* max_tries - 1 (3) sleeps, each sleep between two attempts.
C8_RetryBound ==
    (pc = "returned" /\ result.state = "ExhaustedRetries" /\ UpstreamAlwaysTransient) =>
        /\ Cardinality(TranslateEvents) = 4
        /\ Cardinality(SleepEvents) = 3
        /\ \A i \in SleepEvents :
              /\ i > 1 /\ i < Len(trace)
              /\ trace[i - 1].ev = "translate" /\ trace[i + 1].ev = "translate"

\* C9: a Forbidden from the upstream ends the call at once: no translate call
\* and no sleep follows it, and the call returns msg (the degrade policy); a
\* Forbidden on the first attempt makes that one attempt and no sleep.
C9_ForbiddenShortCircuit ==
    \A i \in TranslateEvents :
        (trace[i].upstream /\ trace[i].outcome = "Forbidden") =>
            /\ i = Len(trace)
            /\ Cardinality(SleepEvents) = Cardinality(TranslateEvents) - 1
            /\ pc = "returned"
            /\ result.state = "PermanentFailure"
            /\ result.value = msg

\* Forbidden on the first attempt of a call with a non-empty message
C9_Witness ==
    /\ pc = "returned" /\ Len(msg) = 1
    /\ Len(trace) = 1
    /\ trace[1].ev = "translate" /\ trace[1].upstream /\ trace[1].outcome = "Forbidden"
    /\ result = [state |-> "PermanentFailure", value |-> msg]

\* C10: no text handed to translate is longer than 5000 characters: a message
\* above 5000 goes out as its first 4996 characters followed by " ...", and
\* every attempt of the call hands over the same text.
C10_NoOversizedPayload ==
    /\ \A text \in sent :
          /\ Len(text) <= 5000
          /\ Len(msg) > 5000 => text = SubSeq(msg, 1, 4996) \o <<" ", ".", ".", ".">>
    /\ Cardinality(sent) <= 1
    /\ TranslateEvents # {} => sent # {}

\* a message of 5002 characters, tried three times
C10_Witness ==
    /\ Len(msg) = 5002
    /\ Cardinality(TranslateEvents) = 3
    /\ sent = {SubSeq(msg, 1, 4996) \o <<" ", ".", ".", ".">>}
    /\ \A text \in sent : Len(text) = 5000


\* ------------- SpecStore: Db objects over the files of one base directory
\* join(basedir, f'translation-cache-{lang}')
store_path_one_file(basedir, language) == <<basedir, "translation-cache-", "">>
store_path(basedir, language) == <<basedir, "translation-cache-", language>>

\* shelve2.open2(path): the shelf of the file, created empty if it is not there
open2_always_new(fs, path) ==
    [p \in (DOMAIN fs) \cup {path} |-> IF p = path THEN EmptyShelf ELSE fs[p]]
open2(fs, path) ==
    IF path \in DOMAIN fs THEN fs
    ELSE [p \in (DOMAIN fs) \cup {path} |-> IF p = path THEN EmptyShelf ELSE fs[p]]

\* Db.__init__(basedir, lang): the new object; gen numbers the objects of a slot
Db_open_keep_counters(old, basedir, language) ==
    [state |-> "open", lang |-> language, path |-> store_path(basedir, language),
     hits |-> old.hits, misses |-> old.misses, gen |-> old.gen + 1, wrote |-> FALSE]
Db_open(old, basedir, language) ==
    [state |-> "open", lang |-> language, path |-> store_path(basedir, language),
     hits |-> 0, misses |-> 0, gen |-> old.gen + 1, wrote |-> FALSE]

\* the Db object of slot h as add, remove, get and stats take it
Self(fs, hs, h) == [db |-> fs[hs[h].path], hits |-> hs[h].hits, misses |-> hs[h].misses]

\* the files and the object after a call that left the object as `self`
WriteBack(h, self) ==
    /\ files' = [files EXCEPT ![handles[h].path] = self.db]
    /\ handles' = [handles EXCEPT ![h].hits = self.hits, ![h].misses = self.misses]

InitStore ==
    /\ cache = Db__init__
    /\ history = <<>>
    /\ loop = NoLoop
    /\ NoChef
    /\ NoStore
    /\ NoRun

\* Db(basedir, lang) in slot h. The store is single-writer by design: no other
\* object of the same language is open.
StoreOpen(h, language) ==
    /\ handles[h].state # "open"
    /\ handles[1].gen + handles[2].gen < MaxOpens
    /\ \A g \in Handles : handles[g].state = "open" => handles[g].lang # language
    /\ handles' = [handles EXCEPT ![h] = Db_open(handles[h], BaseDir, language)]
    /\ files' = open2(files, handles'[h].path)
    /\ acted' = [NoCall EXCEPT !.h = h, !.op = "open"]
    /\ UNCHANGED <<expected, dbVars, loop, chefVars, runVars>>

\* Db.close(): the shelf is flushed and released, the file stays
StoreClose(h) ==
    /\ handles[h].state = "open"
    /\ handles' = [handles EXCEPT ![h].state = "closed"]
    /\ acted' = [NoCall EXCEPT !.h = h, !.op = "close"]
    /\ UNCHANGED <<files, expected, dbVars, loop, chefVars, runVars>>

StoreAdd(h, key, data) ==
    /\ handles[h].state = "open"
    /\ LET self == add(Self(files, handles, h), key, data)
       IN /\ files' = [files EXCEPT ![handles[h].path] = self.db]
          /\ handles' = [handles EXCEPT ![h].hits = self.hits, ![h].misses = self.misses,
                                        ![h].wrote = TRUE]
    /\ expected' = [expected EXCEPT ![handles[h].lang][key] =
                       [present |-> TRUE, value |-> data]]
    /\ acted' = [NoCall EXCEPT !.h = h, !.op = "add"]
    /\ UNCHANGED <<dbVars, loop, chefVars, runVars>>

StoreRemove(h, key) ==
    /\ handles[h].state = "open"
    /\ LET r == remove(Self(files, handles, h), key)
       IN /\ WriteBack(h, r.self)
          /\ expected' = IF r.raised = NoError
                         THEN [expected EXCEPT ![handles[h].lang][key] = NoEntry]
                         ELSE expected
          /\ acted' = [NoCall EXCEPT !.h = h, !.op = "remove", !.raised = r.raised]
    /\ UNCHANGED <<dbVars, loop, chefVars, runVars>>

StoreGet(h, key) ==
    /\ handles[h].state = "open"
    /\ handles[1].hits + handles[1].misses + handles[2].hits + handles[2].misses
          < MaxStoreGets
    /\ LET r == get(Self(files, handles, h), key)
       IN /\ WriteBack(h, r.self)
          /\ acted' = [NoCall EXCEPT !.h = h, !.op = "get", !.found = r.found,
                                     !.raised = r.raised]
    /\ UNCHANGED <<expected, dbVars, loop, chefVars, runVars>>

NextStore ==
    \/ \E h \in Handles, language \in Langs : StoreOpen(h, language)
    \/ \E h \in Handles : StoreClose(h)
    \/ \E h \in Handles, key \in Keys, data \in StoreData : StoreAdd(h, key, data)
    \/ \E h \in Handles, key \in Keys : StoreRemove(h, key)
    \/ \E h \in Handles, key \in Keys : StoreGet(h, key)

SpecStore == InitStore /\ [][NextStore]_vars


\* what get(key) returns on the Db object of slot h
Lookup(fs, hs, h, key) ==
    [found |-> get(Self(fs, hs, h), key).found, value |-> get(Self(fs, hs, h), key).value]

\* C11: stores are partitioned by language: a call on a Db object of one
\* language changes no get result of an open Db object of another language
\* (same base directory), and does not touch that object's hits and misses.
C11_LanguagePartition ==
    [][\A g \in Handles :
          (/\ acted'.h \in Handles /\ acted'.h # g
           /\ acted'.op \in {"add", "remove", "get"}
           /\ handles[g].state = "open"
           /\ handles[acted'.h].lang # handles[g].lang)
          => /\ handles'[g] = handles[g]
             /\ \A k \in Keys : Lookup(files', handles', g, k) = Lookup(files, handles, g, k)]_vars

\* an "es" and an "en" object are open, "hola" was added to "es" and looked up
\* in both
C11_Witness ==
    /\ handles[1].state = "open" /\ handles[1].lang = "es"
    /\ handles[2].state = "open" /\ handles[2].lang = "en"
    /\ expected["es"]["hola"].present /\ ~expected["en"]["hola"].present
    /\ handles[1].hits = 1 /\ handles[1].misses = 0
    /\ handles[2].hits = 0 /\ handles[2].misses = 1
    /\ acted = [NoCall EXCEPT !.h = 2, !.op = "get"]

\* C12: entries outlive the Db object that wrote them: whatever was added for a
\* language (and not removed since), by an object closed in the meantime or
\* not, get on an open object of that language returns (True, value); the
\* counters of a newly constructed object are 0.
C12_DurableAcrossRestarts ==
    /\ \A h \in Handles : \A k \in Keys :
          handles[h].state = "open" =>
              Lookup(files, handles, h, k) =
                  [found |-> expected[handles[h].lang][k].present,
                   value |-> expected[handles[h].lang][k].value]
    /\ acted.op = "open" => handles[acted.h].hits = 0 /\ handles[acted.h].misses = 0

\* the second object of slot 1 (the only slot used) never added anything and
\* its get is a hit: the entry comes from the object that was closed
C12_Witness ==
    /\ handles[2].state = "none"
    /\ handles[1].state = "open" /\ handles[1].gen = 2 /\ ~handles[1].wrote
    /\ handles[1].hits = 1 /\ handles[1].misses = 0
    /\ acted = [NoCall EXCEPT !.h = 1, !.op = "get", !.found = TRUE]

IsRemoveStep == Len(history') = Len(history) + 1 /\ Last(history').op = "remove"

\* C13: remove of a key that has no entry fails with the store's not-found
\* error (KeyError) and changes neither the entries nor hits and misses.
C13_RemoveMissingFails ==
    [][(IsRemoveStep /\ ~Stored(history, Last(history').key, Len(history) + 1)) =>
          /\ Last(history').raised = "KeyError"
          /\ cache' = cache]_vars

\* "hola" is stored and counted, remove("adios") fails
C13_Witness ==
    /\ Len(history) >= 3
    /\ Last(history).op = "remove" /\ Last(history).key = "adios"
    /\ Last(history).raised = "KeyError"
    /\ _genkey("hola") \in DOMAIN cache.db
    /\ cache.hits = 1


\* C14: whenever a translate call made by _ returns without raising, be it a
\* record, a non-empty list or an empty list, the call of _ ends in Success: no
\* further translate call and no sleep follow.
C14_ReturnMeansSuccess ==
    \A i \in TranslateEvents :
        trace[i].response \in {"record", "list", "empty list"} =>
            /\ i = Len(trace)
            /\ pc = "returned"
            /\ result.state = "Success"

\* a sleep of the trace that no translate call follows, the call being over
SleepWithoutRetry(i) == pc = "returned" /\ (i = Len(trace) \/ trace[i + 1].ev # "translate")

\* C15: _ sleeps only when retries remain: every sleep is followed by another
\* translate call, and the call reaches ExhaustedRetries straight from the
\* failure of its last attempt, without a sleep.
C15_SleepOnlyBeforeRetry ==
    /\ \A i \in SleepEvents : ~SleepWithoutRetry(i)
    /\ result.state = "ExhaustedRetries" => Last(trace).ev = "translate"

\* the translate calls before the last one all reached the upstream and failed
\* with an error other than Forbidden
TransientUntilLast ==
    \A i \in TranslateEvents :
        i < Len(trace) =>
            /\ trace[i].upstream
            /\ trace[i].outcome \notin {"returned", "Forbidden", "IndexError"}

\* C16: transient errors on the first k attempts and a well-formed result on
\* attempt k + 1 (within the attempts the loop allows): the call makes exactly
\* k + 1 attempts and k sleeps of 100 seconds, attempt and sleep alternating,
\* and returns the translatedText of the result of attempt k + 1.
C16_RetryThenSuccess ==
    (/\ pc = "returned" /\ TransientUntilLast
     /\ Last(trace).ev = "translate" /\ Last(trace).response \in {"record", "list"})
    => LET k == Cardinality(TranslateEvents) - 1 IN
       /\ Len(trace) = 2 * k + 1
       /\ \A i \in 1..Len(trace) :
             IF i % 2 = 1 THEN trace[i].ev = "translate" /\ trace[i].try_ = (i + 1) \div 2
             ELSE trace[i].ev = "sleep" /\ trace[i].secs = 100
       /\ Cardinality(SleepEvents) = k
       /\ result.state = "Success"
       /\ result.value = Last(trace).texts[1]

\* two transient errors, then a list of two records: the first one's text
C16_Witness ==
    /\ pc = "returned" /\ TransientUntilLast
    /\ Cardinality(TranslateEvents) = 3 /\ Cardinality(SleepEvents) = 2
    /\ Last(trace).response = "list" /\ Len(Last(trace).texts) = 2
    /\ result = [state |-> "Success", value |-> Mundo]

\* C17: in degraded mode (Forbidden, or retries exhausted) _ returns exactly
\* its argument msg, also when what it sent was the truncated form of msg.
C17_DegradeReturnsOriginal ==
    result.state \in {"PermanentFailure", "ExhaustedRetries"} =>
        /\ pc = "returned"
        /\ result.value = msg

\* Forbidden on a message of 5002 characters, sent as 5000
C17_Witness ==
    /\ result.state = "PermanentFailure"
    /\ Len(msg) = 5002 /\ result.value = msg
    /\ \E text \in sent : Len(text) = 5000 /\ text # msg

\* C18: the length guard changes a message only if it is longer than 5000
\* characters: every message of at most 5000 characters, 5000 included, is
\* handed to translate as it is.
C18_GuardOnlyAboveLimit ==
    \A text \in sent : Len(msg) <= 5000 => text = msg

\* SpecRetryFair: the call runs on: a translate call returns or raises, a sleep
\* ends, the statements after them are executed
SpecRetryFair ==
    /\ SpecRetry
    /\ WF_vars(\E answer \in UpstreamAnswers : Attempt_(answer))
    /\ WF_vars(Sleep_)
    /\ WF_vars(Exhausted_)

\* C19: every call of _ ends, whatever the upstream does, in Success,
\* PermanentFailure or ExhaustedRetries, and neither the attempt counter nor
\* the number of translate calls ever exceeds max_tries.
C19_Terminates ==
    /\ (pc \in {"loop", "sleep"}) ~> (pc = "returned")
    /\ [](pc = "returned" =>
            result.state \in {"Success", "PermanentFailure", "ExhaustedRetries"})
    /\ [](try_ <= 4 /\ Cardinality(TranslateEvents) <= 4)

\* a call that used up its retries
C19_Witness ==
    /\ pc = "returned" /\ result.state = "ExhaustedRetries"
    /\ try_ = 4 /\ Cardinality(TranslateEvents) = 3

\* C20: a call that succeeds returns one string: the translatedText of the
\* record when the response is a single record, the translatedText of the
\* first record when it is a non-empty list.
C20_OneStringPerSuccess ==
    result.state = "Success" =>
        /\ Last(trace).response \in {"record", "list"}
        /\ result.value = Last(trace).texts[1]
        /\ \A i \in 1..Len(result.value) : result.value[i] \in STRING

\* both shapes: a single record, and a list of two records
C20_Witness ==
    /\ result.state = "Success"
    /\ Last(trace).response = "list" /\ Len(Last(trace).texts) = 2
    /\ result.value = Mundo /\ Last(trace).texts[2] = Hola


\* the entry the shelf of a Db holds for a key, read without calling get
Entry(self, key) ==
    IF _genkey(key) \in DOMAIN self.db
    THEN [present |-> TRUE, value |-> self.db[_genkey(key)]]
    ELSE [present |-> FALSE, value |-> None]

\* the step is one call of a method of Db
IsDbStep == Len(history') = Len(history) + 1

\* C22: frame conditions of the cache. Db.get never changes the stored entries
\* and changes one counter only; Db.add and Db.remove never change hits or
\* misses; Db.add(k, v) and Db.remove(k) never change the entry stored for a
\* key other than k; Db.stats changes nothing.
C22_FrameConditions ==
    [][IsDbStep =>
          LET c == Last(history') IN
          /\ c.op = "get" =>
                /\ cache'.db = cache.db
                /\ \/ cache'.hits = cache.hits + 1 /\ cache'.misses = cache.misses
                   \/ cache'.hits = cache.hits /\ cache'.misses = cache.misses + 1
          /\ c.op \in {"add", "remove"} =>
                /\ cache'.hits = cache.hits /\ cache'.misses = cache.misses
                /\ \A k \in Keys \ {c.key} : Entry(cache', k) = Entry(cache, k)
                /\ DOMAIN cache'.db \subseteq (DOMAIN cache.db) \cup {_genkey(c.key)}
                /\ (DOMAIN cache.db) \ {_genkey(c.key)} \subseteq DOMAIN cache'.db
          /\ c.op = "stats" => cache' = cache]_vars

\* every method has been called with another key's entry in the store:
\* add("adios"), add("hola"), get("adios"), remove("hola"), stats()
C22_Witness ==
    /\ Len(history) = 5
    /\ history[1].op = "add" /\ history[1].key = "adios" /\ history[1].data = "mundo!"
    /\ history[2].op = "add" /\ history[2].key = "hola"
    /\ history[3].op = "get" /\ history[3].key = "adios" /\ history[3].found
    /\ history[4].op = "remove" /\ history[4].key = "hola" /\ history[4].raised = NoError
    /\ history[5].op = "stats" /\ history[5].stats = [hits |-> 1, misses |-> 0]
    /\ Entry(cache, "adios") = [present |-> TRUE, value |-> "mundo!"]
    /\ ~Entry(cache, "hola").present


\* --------------------------------- SpecRun: several calls of _ in one run
\* the messages the run translates
RunMessages == {Msg(1, 0), Msg(1, 1)}

InitRun ==
    /\ cache = Db__init__
    /\ history = <<>>
    /\ loop = NoLoop
    /\ NoChef
    /\ NoStore
    /\ NoRun

\* the upstream calls the running call of _ has made
UpstreamCalls == Cardinality({i \in TranslateEvents : trace[i].upstream})

\* `return` in _: the caller has the result and may call _ again. The chef
\* holds no Db and no CachingClient, so nothing of the call is kept but
\* what it returned.
Return_ ==
    /\ pc = "returned"
    /\ Len(calls) < MaxCalls
    /\ calls' = Append(calls, [msg |-> msg, state |-> result.state,
                               value |-> result.value, upstream |-> UpstreamCalls])
    /\ pc' = "ready"
    /\ msg' = <<>>
    /\ msg_to_translate' = <<>>
    /\ try_' = 0
    /\ trace' = <<>>
    /\ sent' = {}
    /\ result' = [state |-> "none", value |-> <<>>]
    /\ UNCHANGED <<lang, translation_client, unit, dbVars, loop, storeVars>>

NextRun ==
    \/ \E option \in LangOptions : _setup_language(option)
    \/ \E m \in RunMessages : Enter_(m)
    \/ \E answer \in UpstreamAnswers : Attempt_(answer)
    \/ Sleep_
    \/ Exhausted_
    \/ Return_

SpecRun == InitRun /\ [][NextRun]_vars

\* C21: in the chef, translating the same message twice within one run, the
\* upstream succeeding the first time, makes exactly one upstream call, and
\* the first result is stored in the cache.
C21_ChefUsesCache ==
    (/\ Len(calls) = 2
     /\ calls[1].msg = calls[2].msg
     /\ calls[1].state = "Success" /\ calls[1].upstream = 1) =>
        /\ calls[2].upstream = 0
        /\ DOMAIN cache.db # {}


\* ------------------------- SpecUnit: Client.translate called on its own
\* Client.__init__(source_language=..., target_language=...)
Client__init__from(source_language, target_language) ==
    [Client__init__(target_language) EXCEPT !.source_language = source_language]

UnitSources == {"en", "es"}
UnitTargets == {None, "en", "es"}
UnitLengths == {0, 1, MAX_LENGTH - 1, MAX_LENGTH, MAX_LENGTH + 1, 2 * MAX_LENGTH} \cup
               {2 * MAX_LENGTH + d : d \in 1..MaxOver}
UnitValues == {Msg(n, shift) : n \in UnitLengths, shift \in {0, 1}}

InitUnit ==
    /\ cache = Db__init__
    /\ history = <<>>
    /\ loop = NoLoop
    /\ NoChef
    /\ NoStore
    /\ NoRun

\* translation.Client(source_language=..., target_language=...)
UnitNew(source_language, target_language) ==
    /\ unit.client = NoClient
    /\ unit' = [unit EXCEPT !.client = Client__init__from(source_language, target_language)]
    /\ UNCHANGED <<calls, dbVars, loop, chefVars, storeVars>>

\* client.translate(values), the Google client answering `answer` if called
UnitTranslate(values, answer) ==
    /\ unit.client # NoClient /\ ~unit.done
    /\ LET r == Client_translate(unit.client, values, answer) IN
       unit' = [unit EXCEPT !.values = values, !.done = TRUE,
                            !.raised = r.raised,
                            !.upstream_calls = r.upstream_calls,
                            !.shape = Shape(r),
                            !.records = IF r.raised = NoError THEN r.value.records ELSE <<>>,
                            !.answer = [raised |-> answer.raised, shape |-> Shape(answer),
                                        records |-> IF answer.raised = NoError
                                                    THEN answer.value.records ELSE <<>>]]
    /\ UNCHANGED <<calls, dbVars, loop, chefVars, storeVars>>

NextUnit ==
    \/ \E s \in UnitSources, t \in UnitTargets : UnitNew(s, t)
    \/ \E values \in UnitValues, answer \in UpstreamAnswers : UnitTranslate(values, answer)

SpecUnit == InitUnit /\ [][NextUnit]_vars

\* the strings of a list, one after the other
RECURSIVE Concat(_)
Concat(strings) ==
    IF Len(strings) = 0 THEN <<>> ELSE Head(strings) \o Concat(Tail(strings))

\* C23: with source_language and target_language both 'en', Client.translate
\* makes no upstream call and returns one record per piece of the input, in
\* order, each with model 'nop' and the piece as translatedText; the pieces are
\* non-empty, at most MAX_LENGTH characters long, their concatenation is the
\* input, and the empty string yields none. For any other language pair the
\* upstream client is called exactly once with the unchunked input.
C23_NopAndChunks ==
    unit.done =>
        IF unit.client.source_language = "en" /\ unit.client.target_language = "en"
        THEN /\ unit.upstream_calls = <<>>
             /\ unit.raised = NoError
             /\ unit.shape \in {"list", "empty list"}
             /\ \A n \in 1..Len(unit.records) :
                    /\ unit.records[n].model = "nop"
                    /\ Len(unit.records[n].translatedText) \in 1..MAX_LENGTH
             /\ Concat([n \in 1..Len(unit.records) |-> unit.records[n].translatedText])
                    = unit.values
             /\ unit.values = <<>> => unit.records = <<>>
        ELSE /\ unit.upstream_calls = <<unit.values>>
             /\ unit.raised = unit.answer.raised
             /\ unit.shape = unit.answer.shape
             /\ unit.records = unit.answer.records

\* 'en' to 'en', 10001 characters: three records, the last of one character
C23_Witness ==
    /\ unit.done
    /\ unit.client.source_language = "en" /\ unit.client.target_language = "en"
    /\ Len(unit.values) = 10001
    /\ Len(unit.records) = 3
    /\ Len(unit.records[3].translatedText) = 1
    /\ unit.records[2].translatedText = SubSeq(unit.values, 5001, 10000)


====
